---- MODULE Spec2Model ----
(***************************************************************************)
(* scripts/login.js: one run of main() driving a headless browser through  *)
(* the panel login, the server page, the console, a restart and a          *)
(* diagnostic command, with notifyTelegram called at each milestone.       *)
(*                                                                         *)
(* Every awaited call of main() is one action.  The outcome of each call   *)
(* to the browser (it resolves, or it rejects) is chosen when the call is  *)
(* made and kept in `world`; a second run of the script (Rerun) meets the  *)
(* same panel and the same browser faults, but a freshly chosen notifier   *)
(* configuration and fresh delivery outcomes.                              *)
(***************************************************************************)
EXTENDS Integers, Sequences, FiniteSets, TLC

VARIABLES
    pc,            \* position of main(): the next awaited call
    env,           \* process.env: LUNES_USERNAME, LUNES_PASSWORD, TELEGRAM_*
    browser,       \* "none" | "open" | "closed"
    context,       \* "none" | "open" | "closed"
    page,          \* "none" | "open"
    closes,        \* number of close() calls that returned, per resource
    exitCode,      \* process.exitCode: <<>> while unset, else <<n>>
    status,        \* the exit status of the process: <<>> while it runs
    fault,         \* the error caught or propagating: <<>> or <<step>>
    rejecting,     \* TRUE when an exception is propagating through finally
    steps,         \* the calls that have completed, in order
    calls,         \* the arguments of each notifyTelegram call, in order
    note,          \* what the last notifyTelegram call did
    deliveryFailed,\* some delivery of this run failed inside notifyTelegram
    disk,          \* the screenshot files that exist in the working directory
    written,       \* the screenshot files written by this run, in order
    clickP,        \* the promise of loginBtn.click() at the submit step
    idleP,         \* the promise of waitForLoadState(...).catch(() => {})
    url,           \* const url = page.url()
    successHint,   \* const successHint = await ....count()
    errorMsg,      \* const errorMsg
    world,         \* outcome of each browser call made so far
    prev           \* the outcome of the previous run: <<>> or <<record>>

runVars == <<pc, exitCode, status, fault, rejecting, steps, calls, written>>
browserVars == <<browser, context, page, closes>>
noteVars == <<note, deliveryFailed>>
submitVars == <<clickP, idleP>>
localVars == <<url, successHint, errorMsg>>
vars == <<runVars, browserVars, noteVars, submitVars, localVars,
          env, disk, world, prev>>

----------------------------------------------------------------------------
(* Values *)

Undefined == <<>>

\* what an environment variable may hold: unset, the empty string, a value
CredentialValues == {Undefined, <<"">>, <<"u">>}
TokenValues == {Undefined, <<"t">>}

LOGIN_URL == "https://ctrl.lunes.host/auth/login"

\* the URLs the page may be at after the submission
PageUrls == {LOGIN_URL,
             "https://ctrl.lunes.host/auth/login?error=1",
             "https://ctrl.lunes.host/"}

\* /\/auth\/login/i.test(url)
stillOnLogin(u) ==
    u \in {LOGIN_URL, "https://ctrl.lunes.host/auth/login?error=1"}

\* const screenshot = (name) => `./${name}.png`
screenshot(name) == "./" \o name \o ".png"

\* JavaScript truthiness of a value that is undefined or a string
Truthy(v) == v # Undefined /\ v # <<"">>

NoNote == [requests |-> 0, raised |-> FALSE, warn |-> "none"]

----------------------------------------------------------------------------
(* notifyTelegram *)

\* how the two fetch calls and the readFileSync of one call may go
DeliveryOutcomes == {"ok", "textFails", "readFails", "photoFails"}

\* fs.existsSync(path)
existsSync(path) == path \in disk

\* the try block of notifyTelegram: the requests it makes and whether it
\* throws.  args = [ok, stage, msg, screenshotPath]
notifyBodyAnd(args, net) ==
    IF ~Truthy(env.TELEGRAM_BOT_TOKEN) /\ ~Truthy(env.TELEGRAM_CHAT_ID)
    THEN [requests |-> 0, threw |-> FALSE, skipped |-> TRUE]
    ELSE IF net = "textFails"
    THEN [requests |-> 1, threw |-> TRUE, skipped |-> FALSE]
    ELSE IF args.screenshotPath # Undefined /\ existsSync(args.screenshotPath[1])
    THEN IF net = "readFails"
         THEN [requests |-> 1, threw |-> TRUE, skipped |-> FALSE]
         ELSE [requests |-> 2, threw |-> (net = "photoFails"), skipped |-> FALSE]
    ELSE [requests |-> 1, threw |-> FALSE, skipped |-> FALSE]

notifyBody(args, net) ==
    IF ~Truthy(env.TELEGRAM_BOT_TOKEN) \/ ~Truthy(env.TELEGRAM_CHAT_ID)
    THEN [requests |-> 0, threw |-> FALSE, skipped |-> TRUE]
    ELSE IF net = "textFails"
    THEN [requests |-> 1, threw |-> TRUE, skipped |-> FALSE]
    ELSE IF args.screenshotPath # Undefined /\ existsSync(args.screenshotPath[1])
    THEN IF net = "readFails"
         THEN [requests |-> 1, threw |-> TRUE, skipped |-> FALSE]
         ELSE [requests |-> 2, threw |-> (net = "photoFails"), skipped |-> FALSE]
    ELSE [requests |-> 1, threw |-> FALSE, skipped |-> FALSE]

\* notifyTelegram without its try/catch: a failed delivery rejects the call
notifyTelegramNoCatch(args, net) ==
    LET b == notifyBody(args, net)
    IN  [requests |-> b.requests,
         raised   |-> b.threw,
         warn     |-> IF b.skipped THEN "skipped" ELSE "none"]

\* the whole call: the catch logs a warning and the call returns
notifyTelegram(args, net) ==
    LET b == notifyBody(args, net)
    IN  [requests |-> b.requests,
         raised   |-> FALSE,
         warn     |-> IF b.skipped THEN "skipped"
                      ELSE IF b.threw THEN "failed" ELSE "none"]

Message(ok, stage, msg, path) ==
    [ok |-> ok, stage |-> stage, msg |-> msg, screenshotPath |-> path]

----------------------------------------------------------------------------
(* The browser as main() meets it *)

\* the outcome o of call s: free the first time, replayed by a later run
Outcome(s, o) == s \in DOMAIN world => o = world[s]

Record(s, o) == world' = (s :> o) @@ world

\* function envOrThrow(name): throws on an unset or empty variable
envOrThrowUnsetOnly(name) ==
    IF env[name] = Undefined THEN "throw" ELSE "return"

envOrThrow(name) ==
    IF ~Truthy(env[name]) THEN "throw" ELSE "return"

Init ==
    /\ pc = "envUsername"
    /\ env \in [LUNES_USERNAME : CredentialValues,
                LUNES_PASSWORD : CredentialValues,
                TELEGRAM_BOT_TOKEN : TokenValues,
                TELEGRAM_CHAT_ID : TokenValues]
    /\ browser = "none" /\ context = "none" /\ page = "none"
    /\ closes = [browser |-> 0, context |-> 0]
    /\ exitCode = Undefined
    /\ status = Undefined
    /\ fault = Undefined
    /\ rejecting = FALSE
    /\ steps = <<>>
    /\ calls = <<>>
    /\ note = NoNote
    /\ deliveryFailed = FALSE
    /\ disk = {}
    /\ written = <<>>
    /\ clickP = "unstarted" /\ idleP = "unstarted"
    /\ url = "" /\ successHint = 0 /\ errorMsg = ""
    /\ world = <<>>
    /\ prev = <<>>

----------------------------------------------------------------------------
(* main(): the calls before the try block.  A throw here leaves main()     *)
(* directly: neither the catch nor the finally block covers these lines.   *)

EnvUsername ==
    /\ pc = "envUsername"
    /\ IF envOrThrow("LUNES_USERNAME") = "throw"
       THEN pc' = "rejected" /\ fault' = <<"envUsername">>
       ELSE pc' = "envPassword" /\ fault' = fault
    /\ UNCHANGED <<exitCode, status, rejecting, steps, calls, written,
                   browserVars, noteVars, submitVars, localVars,
                   env, disk, world, prev>>

EnvPassword ==
    /\ pc = "envPassword"
    /\ IF envOrThrow("LUNES_PASSWORD") = "throw"
       THEN pc' = "rejected" /\ fault' = <<"envPassword">>
       ELSE pc' = "launch" /\ fault' = fault
    /\ UNCHANGED <<exitCode, status, rejecting, steps, calls, written,
                   browserVars, noteVars, submitVars, localVars,
                   env, disk, world, prev>>

\* a call made before the try block: s resolves and sets up a resource,
\* or rejects and main() rejects with it
Setup(s, next) ==
    /\ pc = s
    /\ \E o \in {"ok", "fault"} :
         /\ Outcome(s, o) /\ Record(s, o)
         /\ IF o = "ok"
            THEN pc' = next /\ steps' = Append(steps, s) /\ fault' = fault
            ELSE pc' = "rejected" /\ steps' = steps /\ fault' = <<s>>
    /\ UNCHANGED <<exitCode, status, rejecting, calls, written,
                   noteVars, submitVars, localVars, env, disk, prev>>

Launch ==
    /\ Setup("launch", "newContext")
    /\ browser' = IF pc' = "newContext" THEN "open" ELSE browser
    /\ UNCHANGED <<context, page, closes>>

NewContext ==
    /\ Setup("newContext", "newPage")
    /\ context' = IF pc' = "newPage" THEN "open" ELSE context
    /\ UNCHANGED <<browser, page, closes>>

NewPage ==
    /\ Setup("newPage", "goto")
    /\ page' = IF pc' = "goto" THEN "open" ELSE page
    /\ UNCHANGED <<browser, context, closes>>

----------------------------------------------------------------------------
(* main(): the try block *)

\* an awaited browser call inside the try block: it resolves and main()
\* goes on to next, or it rejects and the catch block takes over
Try(s, next) ==
    /\ pc = s
    /\ \E o \in {"ok", "fault"} :
         /\ Outcome(s, o) /\ Record(s, o)
         /\ IF o = "ok"
            THEN pc' = next /\ steps' = Append(steps, s) /\ fault' = fault
            ELSE pc' = "catchShot" /\ steps' = steps /\ fault' = <<s>>
    /\ UNCHANGED <<exitCode, status, rejecting, calls,
                   browserVars, noteVars, submitVars, env, prev>>

\* a call that changes nothing but the page
Act(s, next) ==
    /\ Try(s, next)
    /\ UNCHANGED <<written, disk, localVars>>

\* await page.screenshot({ path: screenshot(name), fullPage: true })
Shot(s, name, next) ==
    /\ Try(s, next)
    /\ IF pc' = next
       THEN /\ disk' = disk \cup {screenshot(name)}
            /\ written' = Append(written, screenshot(name))
       ELSE UNCHANGED <<disk, written>>
    /\ UNCHANGED localVars

\* await locator.count(): rejects, or resolves to a number
Count(s, o) ==
    /\ pc = s
    /\ o \in {"fault", "0", "1"}
    /\ Outcome(s, o) /\ Record(s, o)
    /\ IF o = "fault"
       THEN steps' = steps /\ fault' = <<s>>
       ELSE steps' = Append(steps, s) /\ fault' = fault
    /\ UNCHANGED <<exitCode, status, rejecting, calls, written,
                   browserVars, noteVars, submitVars, env, disk, prev>>

\* await notifyTelegram(args) inside the try block
Notify(s, args, next) ==
    /\ pc = s
    /\ \E net \in DeliveryOutcomes :
         LET r == notifyTelegram(args, net)
         IN  /\ calls' = Append(calls, args)
             /\ note' = r
             /\ deliveryFailed' = (deliveryFailed \/ r.warn = "failed")
             /\ IF r.raised
                THEN pc' = "catchShot" /\ steps' = steps /\ fault' = <<s>>
                ELSE pc' = next /\ steps' = Append(steps, s) /\ fault' = fault
    /\ UNCHANGED <<exitCode, status, rejecting, written, browserVars,
                   submitVars, localVars, env, disk, world, prev>>

\* process.exitCode = n; return (or fall out of the try block)
SetExit(s, n) ==
    /\ pc = s
    /\ exitCode' = <<n>>
    /\ pc' = "closeContext"
    /\ UNCHANGED <<status, fault, rejecting, steps, calls, written,
                   browserVars, noteVars, submitVars, localVars,
                   env, disk, world, prev>>

\* 1) await page.goto(LOGIN_URL, ...)
Goto == Act("goto", "humanCheck")

\* if (await humanCheckText.count()) { ... }
HumanCheck ==
    /\ \E o \in {"fault", "0", "1"} :
         /\ Count("humanCheck", o)
         /\ pc' = CASE o = "fault" -> "catchShot"
                    [] o = "1"     -> "shotHuman"
                    [] OTHER       -> "waitUser"
    /\ UNCHANGED localVars

ShotHuman == Shot("shotHuman", "01-human-check", "notifyHuman")

NotifyHuman ==
    Notify("notifyHuman",
           Message(FALSE, "open_login", "human_check_detected",
                   <<screenshot("01-human-check")>>),
           "exitHuman")

\* process.exitCode = 2 without the return: main() goes on to step 2
ExitHumanNoReturn ==
    /\ pc = "exitHuman"
    /\ exitCode' = <<2>>
    /\ pc' = "waitUser"
    /\ UNCHANGED <<status, fault, rejecting, steps, calls, written,
                   browserVars, noteVars, submitVars, localVars,
                   env, disk, world, prev>>

ExitHuman == SetExit("exitHuman", 2)

\* 2) the username and password fields and the submit control
WaitUser == Act("waitUser", "waitPass")

WaitPass == Act("waitPass", "fillUser")

FillUser == Act("fillUser", "fillPass")

FillPass == Act("fillPass", "waitLoginBtn")

WaitLoginBtn == Act("waitLoginBtn", "shotBefore")

ShotBefore == Shot("shotBefore", "02-before-submit", "submit")

----------------------------------------------------------------------------
(* await Promise.all([waitForLoadState(...).catch(() => {}), click(...)]) *)

\* the state a promise settles in
Settled(o) == IF o = "ok" THEN "fulfilled" ELSE "rejected"

\* p.catch(() => {}): a rejection of p becomes a fulfilment
Caught(p) == IF p = "rejected" THEN "fulfilled" ELSE p

\* Promise.all fulfils once every promise has fulfilled
FirstFulfilled(ps) == \E i \in DOMAIN ps : ps[i] = "fulfilled"

AllFulfilled(ps) == \A i \in DOMAIN ps : ps[i] = "fulfilled"

\* Promise.all rejects as soon as one promise rejects
AnyRejected(ps) == \E i \in DOMAIN ps : ps[i] = "rejected"

\* both calls are started before main() suspends
Submit ==
    /\ pc = "submit"
    /\ pc' = "submitAll"
    /\ clickP' = "pending" /\ idleP' = "pending"
    /\ UNCHANGED <<exitCode, status, fault, rejecting, steps, calls, written,
                   browserVars, noteVars, localVars, env, disk, world, prev>>

\* loginBtn.click({ timeout: 10_000 }) settles
ClickSettles ==
    /\ clickP = "pending"
    /\ \E o \in {"ok", "fault"} :
         /\ Outcome("clickSubmit", o) /\ Record("clickSubmit", o)
         /\ clickP' = Settled(o)
         /\ steps' = IF o = "ok" THEN Append(steps, "clickSubmit") ELSE steps
    /\ UNCHANGED <<pc, exitCode, status, fault, rejecting, calls, written,
                   browserVars, noteVars, idleP, localVars, env, disk, prev>>

\* page.waitForLoadState('networkidle', { timeout: 30_000 }).catch(() => {})
\* settles; it may do so after Promise.all has already rejected
IdleSettles ==
    /\ idleP = "pending"
    /\ status = Undefined
    /\ \E o \in {"ok", "fault"} :
         /\ Outcome("idleSubmit", o) /\ Record("idleSubmit", o)
         /\ idleP' = Caught(Settled(o))
    /\ UNCHANGED <<runVars, browserVars, noteVars, clickP, localVars,
                   env, disk, prev>>

\* the await of Promise.all returns or throws
PromiseAll ==
    /\ pc = "submitAll"
    /\ \/ /\ AnyRejected(<<idleP, clickP>>)
          /\ pc' = "catchShot"
          /\ fault' = <<IF clickP = "rejected" THEN "clickSubmit"
                        ELSE "idleSubmit">>
       \/ /\ ~AnyRejected(<<idleP, clickP>>)
          /\ AllFulfilled(<<idleP, clickP>>)
          /\ pc' = "shotAfter"
          /\ fault' = fault
    /\ UNCHANGED <<exitCode, status, rejecting, steps, calls, written,
                   browserVars, noteVars, submitVars, localVars,
                   env, disk, world, prev>>

----------------------------------------------------------------------------
(* 3) the result of the login *)

ShotAfter == Shot("shotAfter", "03-after-submit", "readUrl")

\* const url = page.url()
ReadUrl ==
    /\ pc = "readUrl"
    /\ \E u \in PageUrls :
         /\ Outcome("readUrl", u) /\ Record("readUrl", u)
         /\ url' = u
    /\ pc' = "successHint"
    /\ UNCHANGED <<exitCode, status, fault, rejecting, steps, calls, written,
                   browserVars, noteVars, submitVars, successHint, errorMsg,
                   env, disk, prev>>

\* if (!stillOnLogin || successHint > 0)
LoginSucceededAnd(u, hint) == ~stillOnLogin(u) /\ hint > 0

LoginSucceededNoNot(u, hint) == stillOnLogin(u) \/ hint > 0

LoginSucceeded(u, hint) == ~stillOnLogin(u) \/ hint > 0

\* const successHint = await ....count(), then the if of line 110
SuccessHint ==
    /\ \E o \in {"fault", "0", "1"} :
         /\ Count("successHint", o)
         /\ successHint' = IF o = "1" THEN 1 ELSE 0
         /\ pc' = IF o = "fault" THEN "catchShot"
                  ELSE IF LoginSucceeded(url, successHint')
                  THEN "notifyLogin" ELSE "errCount"
    /\ UNCHANGED <<url, errorMsg>>

NotifyLogin ==
    Notify("notifyLogin",
           Message(TRUE, "login_ok", url, <<screenshot("03-after-submit")>>),
           "waitServerLink")

WaitServerLink == Act("waitServerLink", "clickServerLink")

ClickServerLink == Act("clickServerLink", "idleServer")

IdleServer == Act("idleServer", "shotServer")

\* the server-page screenshot written over the post-submission one
ShotServerOverwrites == Shot("shotServer", "03-after-submit", "notifyServer")

ShotServer == Shot("shotServer", "04-server-page", "notifyServer")

NotifyServer ==
    Notify("notifyServer",
           Message(TRUE, "server_page", "server_detail_opened",
                   <<screenshot("04-server-page")>>),
           "waitConsoleMenu")

WaitConsoleMenu == Act("waitConsoleMenu", "clickConsoleMenu")

ClickConsoleMenu == Act("clickConsoleMenu", "idleConsole")

IdleConsole == Act("idleConsole", "waitRestartBtn")

WaitRestartBtn == Act("waitRestartBtn", "clickRestartBtn")

ClickRestartBtn == Act("clickRestartBtn", "notifyRestart")

NotifyRestart ==
    Notify("notifyRestart",
           Message(TRUE, "click_restart", "vps_restarting", Undefined),
           "pauseRestart")

\* await page.waitForTimeout(10000)
PauseRestart == Act("pauseRestart", "waitCommandInput")

WaitCommandInput == Act("waitCommandInput", "fillCommand")

FillCommand == Act("fillCommand", "pressEnter")

PressEnter == Act("pressEnter", "pauseCommand")

\* await page.waitForTimeout(5000)
PauseCommand == Act("pauseCommand", "shotCommand")

ShotCommand == Shot("shotCommand", "05-command-executed", "notifyCommand")

NotifyCommand ==
    Notify("notifyCommand",
           Message(TRUE, "command_done", "restart_sh_executed",
                   <<screenshot("05-command-executed")>>),
           "exitDone")

ExitDone == SetExit("exitDone", 0)

----------------------------------------------------------------------------
(* the login failed *)

\* const hasError = await errorMsgNode.count()
ErrCount ==
    /\ \E o \in {"fault", "0", "1"} :
         /\ Count("errCount", o)
         /\ pc' = CASE o = "fault" -> "catchShot"
                    [] o = "1"     -> "errText"
                    [] OTHER       -> "notifyFailed"
    /\ errorMsg' = ""
    /\ UNCHANGED <<url, successHint>>

\* await errorMsgNode.first().innerText().catch(() => '')
ErrText ==
    /\ pc = "errText"
    /\ \E o \in {"Invalid", "", "fault"} :
         /\ Outcome("errText", o) /\ Record("errText", o)
         /\ errorMsg' = IF o = "fault" THEN "" ELSE o
    /\ pc' = "notifyFailed"
    /\ steps' = Append(steps, "errText")
    /\ UNCHANGED <<exitCode, status, fault, rejecting, calls, written,
                   browserVars, noteVars, submitVars, url, successHint,
                   env, disk, prev>>

NotifyFailed ==
    Notify("notifyFailed",
           Message(FALSE, "login_failed",
                   IF errorMsg # "" THEN "suspected_failure:" \o errorMsg
                   ELSE "still_on_login",
                   <<screenshot("03-after-submit")>>),
           "exitFailed")

ExitFailed == SetExit("exitFailed", 1)

----------------------------------------------------------------------------
(* main(): the catch block *)

\* try { await page.screenshot({ path: sp, fullPage: true }); } catch {}
CatchShot ==
    /\ pc = "catchShot"
    /\ \E o \in {"ok", "fault"} :
         /\ Outcome("catchShot", o) /\ Record("catchShot", o)
         /\ IF o = "ok"
            THEN /\ disk' = disk \cup {screenshot("99-error")}
                 /\ written' = Append(written, screenshot("99-error"))
                 /\ steps' = Append(steps, "catchShot")
            ELSE UNCHANGED <<disk, written, steps>>
    /\ pc' = "catchNotify"
    /\ UNCHANGED <<exitCode, status, fault, rejecting, calls,
                   browserVars, noteVars, submitVars, localVars, env, prev>>

\* await notifyTelegram({ ok: false, stage: '异常', msg: e?.message, ... })
CatchNotify ==
    /\ pc = "catchNotify"
    /\ \E net \in DeliveryOutcomes :
         LET sp == screenshot("99-error")
             args == Message(FALSE, "exception", fault[1],
                             IF existsSync(sp) THEN <<sp>> ELSE Undefined)
             r == notifyTelegram(args, net)
         IN  /\ calls' = Append(calls, args)
             /\ note' = r
             /\ deliveryFailed' = (deliveryFailed \/ r.warn = "failed")
             /\ IF r.raised
                THEN /\ pc' = "closeContext"
                     /\ rejecting' = TRUE
                     /\ steps' = steps
                ELSE /\ pc' = "catchExit"
                     /\ rejecting' = rejecting
                     /\ steps' = Append(steps, "catchNotify")
    /\ UNCHANGED <<exitCode, status, fault, written, browserVars,
                   submitVars, localVars, env, disk, world, prev>>

CatchExit == SetExit("catchExit", 1)

----------------------------------------------------------------------------
(* main(): the finally block *)

\* await context.close(): a throw leaves the finally block at once
CloseContext ==
    /\ pc = "closeContext"
    /\ \E o \in {"ok", "fault"} :
         /\ Outcome("closeContext", o) /\ Record("closeContext", o)
         /\ IF o = "ok"
            THEN /\ pc' = "closeBrowser"
                 /\ context' = "closed"
                 /\ closes' = [closes EXCEPT !.context = @ + 1]
                 /\ steps' = Append(steps, "closeContext")
                 /\ fault' = fault
            ELSE /\ pc' = "rejected"
                 /\ fault' = <<"closeContext">>
                 /\ UNCHANGED <<context, closes, steps>>
    /\ UNCHANGED <<exitCode, status, rejecting, calls, written, browser, page,
                   noteVars, submitVars, localVars, env, disk, prev>>

\* await browser.close(), then main() returns, or rethrows what the catch
\* block threw
CloseBrowser ==
    /\ pc = "closeBrowser"
    /\ \E o \in {"ok", "fault"} :
         /\ Outcome("closeBrowser", o) /\ Record("closeBrowser", o)
         /\ IF o = "ok"
            THEN /\ pc' = IF rejecting THEN "rejected" ELSE "returned"
                 /\ browser' = "closed"
                 /\ closes' = [closes EXCEPT !.browser = @ + 1]
                 /\ steps' = Append(steps, "closeBrowser")
                 /\ fault' = fault
            ELSE /\ pc' = "rejected"
                 /\ fault' = <<"closeBrowser">>
                 /\ UNCHANGED <<browser, closes, steps>>
    /\ UNCHANGED <<exitCode, status, rejecting, calls, written, context, page,
                   noteVars, submitVars, localVars, env, disk, prev>>

----------------------------------------------------------------------------
(* await main(): the process ends.  A rejection of main() is an uncaught   *)
(* exception of the module: the process exits with 1 whatever              *)
(* process.exitCode holds; otherwise it exits with process.exitCode, or 0. *)

ProcessExit ==
    /\ pc \in {"returned", "rejected"}
    /\ status' = IF pc = "rejected" THEN <<1>>
                 ELSE IF exitCode = Undefined THEN <<0>> ELSE exitCode
    /\ pc' = "exited"
    /\ UNCHANGED <<exitCode, fault, rejecting, steps, calls, written,
                   browserVars, noteVars, submitVars, localVars,
                   env, disk, world, prev>>

\* the script is started again: the panel and the browser behave as they
\* did (world), the screenshot files are still there, the notifier's
\* configuration and its deliveries are free
Rerun ==
    /\ pc = "exited"
    /\ prev = <<>>
    /\ prev' = <<[steps |-> steps, status |-> status[1], env |-> env,
                  deliveryFailed |-> deliveryFailed]>>
    /\ \E token \in TokenValues, chatId \in TokenValues :
         env' = [env EXCEPT !.TELEGRAM_BOT_TOKEN = token,
                            !.TELEGRAM_CHAT_ID = chatId]
    /\ pc' = "envUsername"
    /\ browser' = "none" /\ context' = "none" /\ page' = "none"
    /\ closes' = [browser |-> 0, context |-> 0]
    /\ exitCode' = Undefined
    /\ status' = Undefined
    /\ fault' = Undefined
    /\ rejecting' = FALSE
    /\ steps' = <<>>
    /\ calls' = <<>>
    /\ note' = NoNote
    /\ deliveryFailed' = FALSE
    /\ written' = <<>>
    /\ clickP' = "unstarted" /\ idleP' = "unstarted"
    /\ url' = "" /\ successHint' = 0 /\ errorMsg' = ""
    /\ UNCHANGED <<disk, world>>

----------------------------------------------------------------------------

Next ==
    \/ EnvUsername \/ EnvPassword \/ Launch \/ NewContext \/ NewPage
    \/ Goto \/ HumanCheck \/ ShotHuman \/ NotifyHuman \/ ExitHuman
    \/ WaitUser \/ WaitPass \/ FillUser \/ FillPass \/ WaitLoginBtn
    \/ ShotBefore \/ Submit \/ ClickSettles \/ IdleSettles \/ PromiseAll
    \/ ShotAfter \/ ReadUrl \/ SuccessHint
    \/ NotifyLogin \/ WaitServerLink \/ ClickServerLink \/ IdleServer
    \/ ShotServer \/ NotifyServer
    \/ WaitConsoleMenu \/ ClickConsoleMenu \/ IdleConsole
    \/ WaitRestartBtn \/ ClickRestartBtn \/ NotifyRestart \/ PauseRestart
    \/ WaitCommandInput \/ FillCommand \/ PressEnter \/ PauseCommand
    \/ ShotCommand \/ NotifyCommand \/ ExitDone
    \/ ErrCount \/ ErrText \/ NotifyFailed \/ ExitFailed
    \/ CatchShot \/ CatchNotify \/ CatchExit
    \/ CloseContext \/ CloseBrowser \/ ProcessExit

\* one run of the script
Spec == Init /\ [][Next]_vars

\* two runs of the script against the same panel
SpecRerun == Init /\ [][Next \/ Rerun]_vars

----------------------------------------------------------------------------
(* Vocabulary of the properties *)

Ended == status # Undefined

\* call s was made (its outcome is known)
Attempted(s) == s \in DOMAIN world

\* call s has completed in this run
Has(s) == \E i \in DOMAIN steps : steps[i] = s

Range(q) == {q[i] : i \in DOMAIN q}

IsPrefix(p, q) ==
    /\ Len(p) <= Len(q)
    /\ \A i \in DOMAIN p : p[i] = q[i]

\* the downstream sequence of the success path
Downstream ==
    <<"clickServerLink", "clickConsoleMenu", "clickRestartBtn",
      "notifyRestart", "pauseRestart", "fillCommand", "pressEnter",
      "notifyCommand">>

IsDownstream(s) == s \in Range(Downstream)

DownstreamDone == SelectSeq(steps, IsDownstream)

\* line 110 as the source writes it, on the values main() read
SuccessSignal ==
    /\ Has("successHint")
    /\ (url \notin {LOGIN_URL, "https://ctrl.lunes.host/auth/login?error=1"}
        \/ successHint > 0)

NoSuccessSignal ==
    /\ Has("successHint")
    /\ url \in {LOGIN_URL, "https://ctrl.lunes.host/auth/login?error=1"}
    /\ successHint = 0

FailureCalls == {i \in DOMAIN calls : ~calls[i].ok}

NotifierOff(e) ==
    e.TELEGRAM_BOT_TOKEN = Undefined \/ e.TELEGRAM_CHAT_ID = Undefined

CredentialMissing ==
    \/ env.LUNES_USERNAME \in {Undefined, <<"">>}
    \/ env.LUNES_PASSWORD \in {Undefined, <<"">>}

\* the calls of the setup and of the try block whose rejection is not
\* swallowed where it happens
Unswallowed ==
    DOMAIN world \ {"idleSubmit", "errText", "catchShot",
                    "closeContext", "closeBrowser", "readUrl"}

FaultSeen == \E s \in Unswallowed : world[s] = "fault"

NoCallFailed == \A s \in DOMAIN world : world[s] # "fault"

----------------------------------------------------------------------------
(* Properties *)

\* C1: when the run has ended, a launched browser and a created context
\* are closed, each exactly once, on every exit path, a throw of
\* newContext, newPage or of the cleanup included.
C1_ReleasedExactlyOnce ==
    Ended =>
        /\ browser # "open" /\ context # "open"
        /\ (Attempted("launch") /\ world["launch"] = "ok"
               => closes.browser = 1)
        /\ (Attempted("newContext") /\ world["newContext"] = "ok"
               => closes.context = 1)
        /\ closes.browser <= 1 /\ closes.context <= 1

\* C2 as claimed: once a success signal holds, the ended run has executed
\* the whole downstream sequence, whatever the later calls did.
C2_WholeSequenceAlways ==
    Ended /\ SuccessSignal => DownstreamDone = Downstream

\* C2 as amended: once a success signal holds, the downstream steps are
\* executed in the fixed order with none skipped (the restart notification
\* right after the restart click and before the pause) up to the first
\* call that rejects; a run in which no call rejects executes them all.
C2_SequenceInOrder ==
    SuccessSignal =>
        /\ IsPrefix(DownstreamDone, Downstream)
        /\ (Ended /\ ~FaultSeen => DownstreamDone = Downstream)
        /\ (exitCode = <<0>> => DownstreamDone = Downstream)

C2_Witness ==
    /\ Ended /\ SuccessSignal
    /\ url = LOGIN_URL
    /\ DownstreamDone = Downstream
    /\ status = <<0>>

\* C3 as claimed: with the challenge marker found the exit code is 2 in
\* every run, and the credentials are never filled nor submitted.
C3_BlockedAlwaysExits2 ==
    Attempted("humanCheck") /\ world["humanCheck"] = "1" =>
        /\ ~Attempted("fillUser") /\ ~Attempted("fillPass")
        /\ ~Attempted("clickSubmit")
        /\ (Ended => status = <<2>>)

\* C3 as amended: with the challenge marker found the credentials are
\* never filled and the submit control is never clicked; the exit code is
\* 2 when neither the challenge screenshot nor the cleanup throws, and 1
\* when one of them does.
C3_BlockedNoCredentials ==
    Attempted("humanCheck") /\ world["humanCheck"] = "1" =>
        /\ ~Attempted("fillUser") /\ ~Attempted("fillPass")
        /\ ~Attempted("clickSubmit")
        /\ pc \notin {"fillUser", "fillPass", "submit", "submitAll"}
        /\ clickP = "unstarted"
        /\ (Ended => status = IF fault = Undefined THEN <<2>> ELSE <<1>>)

C3_Witness ==
    /\ Ended
    /\ Attempted("humanCheck") /\ world["humanCheck"] = "1"
    /\ status = <<2>>
    /\ Len(calls) = 1 /\ calls[1].stage = "open_login"

\* C4: with the URL still on the login path and no success marker, the
\* run ends with exit code 1 and a failure notification, and never clicks
\* the server link, the console control or restart, nor enters the command.
C4_LoginFailure ==
    NoSuccessSignal =>
        /\ \A s \in Range(Downstream) : ~Attempted(s) /\ ~Has(s) /\ pc # s
        /\ ~Attempted("waitServerLink")
        /\ (Ended => status = <<1>> /\ Cardinality(FailureCalls) = 1)

C4_Witness ==
    /\ Ended /\ NoSuccessSignal
    /\ status = <<1>>
    /\ Len(calls) = 1 /\ calls[1].stage = "login_failed" /\ ~calls[1].ok

\* C5: with LUNES_USERNAME or LUNES_PASSWORD unset or empty, main() throws
\* before the browser is launched and before any navigation, and
\* notifyTelegram is never called.
C5_AbortBeforeNetwork ==
    CredentialMissing =>
        /\ browser = "none" /\ context = "none" /\ page = "none"
        /\ ~Attempted("launch") /\ ~Attempted("goto")
        /\ calls = <<>> /\ note.requests = 0
        /\ pc \in {"envUsername", "envPassword", "rejected", "exited"}
        /\ (Ended => fault \in {<<"envUsername">>, <<"envPassword">>})

C5_Witness ==
    /\ Ended
    /\ env.LUNES_USERNAME = <<"u">> /\ env.LUNES_PASSWORD = <<"">>
    /\ fault = <<"envPassword">>
    /\ status = <<1>>

\* C6: a failed delivery never raises out of notifyTelegram, and a run
\* ends with the same steps and the same exit code as another run against
\* the same panel, whatever the deliveries of either did.
C6_NotifierNeverChangesOutcome ==
    /\ ~note.raised /\ ~rejecting
    /\ fault \notin {<<"notifyHuman">>, <<"notifyLogin">>, <<"notifyServer">>,
                     <<"notifyRestart">>, <<"notifyCommand">>,
                     <<"notifyFailed">>}
    /\ (prev # <<>> /\ Ended =>
            steps = prev[1].steps /\ status[1] = prev[1].status)

C6_Witness ==
    /\ prev # <<>> /\ Ended
    /\ ~NotifierOff(env) /\ ~NotifierOff(prev[1].env)
    /\ deliveryFailed /\ ~prev[1].deliveryFailed
    /\ note.warn = "failed"
    /\ status = <<0>>

\* C7 as claimed: the run without challenge that leaves the login URL,
\* with no call failing, exits with 0 and writes five screenshot files.
C7_FiveScreenshots ==
    /\ Ended /\ ~CredentialMissing /\ NoCallFailed
    /\ Attempted("humanCheck") /\ world["humanCheck"] = "0"
    /\ Attempted("readUrl") /\ ~stillOnLogin(url)
    => status = <<0>> /\ Len(written) = 5

\* C7 as amended: that run exits with 0 and writes four screenshot files,
\* 02-before-submit, 03-after-submit, 04-server-page, 05-command-executed,
\* in this order (01-human-check is written on the challenge exit only).
C7_FourScreenshots ==
    /\ Ended /\ ~CredentialMissing /\ NoCallFailed
    /\ Attempted("humanCheck") /\ world["humanCheck"] = "0"
    /\ Attempted("readUrl") /\ ~stillOnLogin(url)
    => /\ status = <<0>>
       /\ written = <<screenshot("02-before-submit"),
                      screenshot("03-after-submit"),
                      screenshot("04-server-page"),
                      screenshot("05-command-executed")>>
       /\ Range(written) \subseteq disk

C7_Witness ==
    /\ Ended /\ NoCallFailed
    /\ env.LUNES_USERNAME = <<"u">> /\ env.LUNES_PASSWORD = <<"u">>
    /\ url = "https://ctrl.lunes.host/" /\ successHint = 0
    /\ status = <<0>>
    /\ Len(written) = 4

\* C8: a fault of any call of the run (launch, context or page creation,
\* navigation, a wait, a click, a screenshot, a pause) ends the run with
\* exit code 1 and exactly one notifyTelegram call with ok = false that
\* carries the message of the fault.
C8_EveryFaultNotified ==
    Ended /\ FaultSeen =>
        /\ status = <<1>>
        /\ Cardinality(FailureCalls) = 1
        /\ \A i \in FailureCalls :
              /\ calls[i].stage = "exception"
              /\ calls[i].msg \in Unswallowed
              /\ world[calls[i].msg] = "fault"

\* C9: with the bot token or the chat id unset, every notifyTelegram call
\* makes no request and returns, and the run ends with the same steps and
\* the same exit code as a run whose notifier is configured.
C9_NotifierOff ==
    /\ NotifierOff(env) =>
          /\ note.requests = 0 /\ ~note.raised /\ note.warn # "failed"
          /\ ~deliveryFailed
    /\ (prev # <<>> /\ Ended /\ NotifierOff(env) # NotifierOff(prev[1].env)
           => steps = prev[1].steps /\ status[1] = prev[1].status)

C9_Witness ==
    /\ prev # <<>> /\ Ended
    /\ env.TELEGRAM_BOT_TOKEN = Undefined /\ env.TELEGRAM_CHAT_ID # Undefined
    /\ ~NotifierOff(prev[1].env)
    /\ Len(calls) = 4 /\ note.warn = "skipped"
    /\ status = <<0>>

\* C10: at the submit step a failed network-idle wait never leads to the
\* exception path; once the click has succeeded the run goes on to the
\* post-submission screenshot and, that screenshot and the marker count
\* resolving, to the decision; and it does so only when both the click and
\* the idle wait have settled.
C10_SubmitJoin ==
    /\ fault # <<"idleSubmit">>
    /\ idleP # "rejected"
    /\ (pc = "shotAfter" \/ Attempted("shotAfter") =>
            clickP = "fulfilled" /\ idleP = "fulfilled"
            /\ Attempted("idleSubmit"))
    /\ (Ended /\ clickP = "fulfilled" => Attempted("shotAfter"))
    /\ (/\ Ended /\ clickP = "fulfilled"
        /\ Attempted("shotAfter") /\ world["shotAfter"] = "ok"
        /\ Attempted("successHint") /\ world["successHint"] # "fault"
        => Has("notifyLogin") \/ Attempted("errCount"))

C10_Witness ==
    /\ Ended
    /\ clickP = "fulfilled"
    /\ Attempted("idleSubmit") /\ world["idleSubmit"] = "fault"
    /\ Has("notifyCommand")
    /\ status = <<0>>

====
